---- MODULE Spec2Model ----
(***************************************************************************)
(* Model of the WhatsApp categorizer endpoint: the HTTP handler (store     *)
(* fetch, batch shaping, row construction, insert) and callMCP, the        *)
(* single-shot correlated request/response exchange over a WebSocket that  *)
(* is guarded by a timeout.                                                *)
(*                                                                         *)
(* Numbers with a fractional part are kept in tenths: coverage 0.8 is 8,   *)
(* coverage 1 is 10, confidence 0.9 is 9.                                  *)
(* A JSON value of unknown type is a record [t, v]: t is its JavaScript    *)
(* type ("array", "number", "string", "undefined", "null") and v its       *)
(* content when the type has one.                                          *)
(***************************************************************************)
EXTENDS Integers, Sequences, FiniteSets, TLC

\* ---------------------------------------------------------------- bounds
MaxN == 3          \* largest number of candidate records the store returns
MaxCap == 2        \* largest batch cap (MAX_ITEMS) explored
MaxMsgs == 2       \* largest number of inbound frames delivered to one call

\* ------------------------------------------------------------ input sets
CorrIds == {"r1"}                      \* the id Math.random() produces for the call
FrameIds == CorrIds \cup {"r2"}        \* msg.id of an inbound frame: the call's or another
\* msg.error: not given (""), or any text the remote service chooses
RemoteErrors == {"", "tool_failed", "mcp_timeout"}
TransportErrors == {"ECONNREFUSED"}    \* err.message of a ws error event
Methods == {"POST", "GET"}

VARIABLES
    hpc,         \* position of the handler: start, awaitFetch, awaitMCP, awaitInsert, done
    MAX_ITEMS,   \* the batch cap
    fetched,     \* result kind of the store select: none, error, ok
    list,        \* the candidate records (filtered ?? [])
    items,       \* the wire items of the request envelope
    inserted,    \* the rows handed to the store insert
    nInsert,     \* number of insert calls
    response,    \* the HTTP response
    id,          \* correlation id of the call
    wsState,     \* readyState of the connection: none, CONNECTING, OPEN, CLOSING, CLOSED
    nConn,       \* number of connections opened
    sent,        \* envelopes sent on the connection
    settled,     \* the settled flag of callMCP
    timer,       \* the deadline timer: none, pending, fired, cleared
    outcome,     \* state of the promise returned by callMCP
    nClose,      \* number of ws.close() calls made by callMCP
    nMsgs,       \* number of inbound frames delivered
    errored,     \* an error event was emitted
    accepted,    \* history: the frame that settled the call
    matchSeen,   \* history: some delivered frame carried the call's id
    lastEvt,     \* history: kind of the last step
    lastLate     \* history: the last step found the promise already settled

hvars == <<hpc, MAX_ITEMS, fetched, list, items, inserted, nInsert, response>>
cvars == <<id, wsState, nConn, sent, settled, timer, outcome, nClose, nMsgs, errored>>
gvars == <<accepted, matchSeen, lastEvt, lastLate>>
vars == <<hvars, cvars, gvars>>

\* ------------------------------------------------------------ JSON values
Num(n) == [t |-> "number", v |-> n]
Null == [t |-> "null", v |-> 0]
Arr(s) == [t |-> "array", v |-> s]
Undef == [t |-> "undefined", v |-> <<>>]
StrSeq == [t |-> "string", v |-> <<>>]
UndefNum == [t |-> "undefined", v |-> 0]
StrNum == [t |-> "string", v |-> 0]

Min(a, b) == IF a < b THEN a ELSE b

\* the label the remote service gives position k (counted from 1)
LabelAt(k) == IF k = 1 THEN "A" ELSE IF k = 2 THEN "B" ELSE "C"

\* the assignment sequences of length up to n: entry k is LabelAt(k), and at
\* most one entry (entry e) is the empty string
AssignmentSeqs(n) ==
    UNION {{[k \in 1..m |-> IF k = e THEN "" ELSE LabelAt(k)] : e \in 0..m} : m \in 0..n}

\* ------------------------------------------------------------ the records
\* record k of the batch; the store assigns ids in no relation to positions
Rec(k) == [id |-> 100 - k, raw_text |-> 200 + k, url |-> 300 + k, matched_keywords |-> 400 + k]
Lists == {[k \in 1..n |-> Rec(k)] : n \in 0..MaxN}

\* ----------------------------------------------------------- the frames
AssignmentVals == {Arr(s) : s \in AssignmentSeqs(MaxN)} \cup {Undef, StrSeq}
CategoryVals == {Arr(<<"A", "B">>), Undef}
CoverageVals == {Num(8), StrNum}

NoFrame == [parses |-> FALSE, id |-> "absent", ok |-> FALSE, assignments |-> Undef,
            categories |-> Undef, coverage |-> UndefNum, error |-> ""]
Frames ==
    {NoFrame}
    \cup [parses : {TRUE}, id : FrameIds, ok : {TRUE}, assignments : AssignmentVals,
          categories : CategoryVals, coverage : CoverageVals, error : {""}]
    \cup [parses : {TRUE}, id : FrameIds, ok : {FALSE}, assignments : {Undef},
          categories : {Undef}, coverage : {UndefNum}, error : RemoteErrors]

\* ---------------------------------------------------------- the promise
Pending == [st |-> "pending", assignments |-> Undef, categories |-> Undef, coverage |-> UndefNum, error |-> ""]
NoPromise == [Pending EXCEPT !.st = "none"]

resolve(o, val) ==
    IF o.st = "pending"
    THEN [st |-> "fulfilled", assignments |-> val.assignments, categories |-> val.categories,
          coverage |-> val.coverage, error |-> ""]
    ELSE o

reject_Overwrite(o, msg) == [Pending EXCEPT !.st = "rejected", !.error = msg]

reject(o, msg) ==
    IF o.st = "pending" THEN [Pending EXCEPT !.st = "rejected", !.error = msg] ELSE o

IsSettled(o) == o.st \in {"fulfilled", "rejected"}

\* ws.close(): starts the closing handshake of a connecting or open socket
wsClose(s) == IF s \in {"CONNECTING", "OPEN"} THEN "CLOSING" ELSE s

clearTimeout_Noop(t) == t

clearTimeout(t) == IF t = "pending" THEN "cleared" ELSE t

\* ------------------------------------------------------- pure functions
slice_NoCap(l, cap) == l

slice(l, cap) == SubSeq(l, 1, Min(Len(l), cap))

ShapeItems(l, cap) ==
    [k \in 1..Len(slice(l, cap)) |->
        [i |-> k - 1, text |-> slice(l, cap)[k].raw_text, url |-> slice(l, cap)[k].url,
         keywords |-> slice(l, cap)[k].matched_keywords]]

CategoryAt_NoFallback(asg, i) ==
    IF asg.t = "array" /\ (i + 1) \in DOMAIN asg.v THEN asg.v[i + 1] ELSE "Other"

\* assignments?.[i] || "Other", i counted from 0; asg is a JSON value
CategoryAt(asg, i) ==
    IF asg.t = "array" /\ (i + 1) \in DOMAIN asg.v /\ asg.v[i + 1] # "" THEN asg.v[i + 1] ELSE "Other"

BuildRows_Capped(l, asg) ==
    [k \in 1..Min(Len(l), MAX_ITEMS) |->
        [filtered_id |-> l[k].id, category |-> CategoryAt(asg, k - 1), confidence |-> 9]]

\* lines 53-57: rows = list.map(...)
BuildRows(l, asg) ==
    [k \in 1..Len(l) |-> [filtered_id |-> l[k].id, category |-> CategoryAt(asg, k - 1), confidence |-> 9]]

Normalize_RawAssignments(msg) ==
    [assignments |-> msg.assignments,
     categories |-> IF msg.categories.t = "array" THEN msg.categories ELSE Arr(<<>>),
     coverage |-> IF msg.coverage.t = "number" THEN msg.coverage ELSE Num(10)]

Normalize_RawCoverage(msg) ==
    [assignments |-> IF msg.assignments.t = "array" THEN msg.assignments ELSE Arr(<<>>),
     categories |-> IF msg.categories.t = "array" THEN msg.categories ELSE Arr(<<>>),
     coverage |-> msg.coverage]

\* lines 110-112
Normalize(msg) ==
    [assignments |-> IF msg.assignments.t = "array" THEN msg.assignments ELSE Arr(<<>>),
     categories |-> IF msg.categories.t = "array" THEN msg.categories ELSE Arr(<<>>),
     coverage |-> IF msg.coverage.t = "number" THEN msg.coverage ELSE Num(10)]

\* lines 68-69: the coverage and categories of the final result
FinalCoverage(cov) == IF cov.t = "number" THEN cov ELSE Null
FinalCategories(cats) == IF cats.t = "array" THEN cats.v ELSE <<>>

ToolError(msg) == IF msg.error # "" THEN msg.error ELSE "mcp_tool_error"

CatchMessage(e) == IF e # "" THEN e ELSE "server_error"

IsEmptyList_Never(l) == FALSE

\* line 36
IsEmptyList(l) == Len(l) = 0

\* ------------------------------------------------------------ responses
NoResponse == [status |-> 0, ok |-> FALSE, processed |-> 0, coverage |-> Null,
               categories |-> <<>>, error |-> ""]
ErrorResponse(code, msg) == [NoResponse EXCEPT !.status = code, !.error = msg]
OkResponse(n, cov, cats) == [status |-> 200, ok |-> TRUE, processed |-> n, coverage |-> cov,
                             categories |-> cats, error |-> ""]

Init ==
    /\ hpc = "start"
    /\ MAX_ITEMS \in 1..MaxCap
    /\ fetched = "none"
    /\ list = <<>>
    /\ items = <<>>
    /\ inserted = <<>>
    /\ nInsert = 0
    /\ response = NoResponse
    /\ id = "absent"
    /\ wsState = "none"
    /\ nConn = 0
    /\ sent = <<>>
    /\ settled = FALSE
    /\ timer = "none"
    /\ outcome = NoPromise
    /\ nClose = 0
    /\ nMsgs = 0
    /\ errored = FALSE
    /\ accepted = NoFrame
    /\ matchSeen = FALSE
    /\ lastEvt = "none"
    /\ lastLate = FALSE

\* ------------------------------------------------------------ the handler
\* lines 10-31: method, body and environment checks, then the store select
HandlerEntry ==
    /\ hpc = "start"
    /\ \E method \in Methods, hasUploadId \in BOOLEAN, hasSupabase \in BOOLEAN, hasMcpUrl \in BOOLEAN :
        IF method # "POST"
        THEN hpc' = "done" /\ response' = ErrorResponse(405, "")
        ELSE IF ~hasUploadId
        THEN hpc' = "done" /\ response' = ErrorResponse(400, "missing upload_id")
        ELSE IF ~hasSupabase
        THEN hpc' = "done" /\ response' = ErrorResponse(500, "server_misconfig: missing Supabase envs")
        ELSE IF ~hasMcpUrl
        THEN hpc' = "done" /\ response' = ErrorResponse(500, "server_misconfig: missing MCP_WS_URL")
        ELSE hpc' = "awaitFetch" /\ response' = response
    /\ lastEvt' = "entry"
    /\ lastLate' = FALSE
    /\ UNCHANGED <<MAX_ITEMS, fetched, list, items, inserted, nInsert, cvars, accepted, matchSeen>>

callMCP_NoTimer(newId) ==
    /\ id' = newId
    /\ wsState' = "CONNECTING"
    /\ nConn' = nConn + 1
    /\ settled' = FALSE
    /\ timer' = "none"
    /\ outcome' = Pending
    /\ UNCHANGED <<sent, nClose, nMsgs, errored>>

\* the executor of the promise callMCP returns (lines 86-96 and the handler
\* registrations): fresh id, new connection, settled flag, deadline timer
callMCP(newId) ==
    /\ id' = newId
    /\ wsState' = "CONNECTING"
    /\ nConn' = nConn + 1
    /\ settled' = FALSE
    /\ timer' = "pending"
    /\ outcome' = Pending
    /\ UNCHANGED <<sent, nClose, nMsgs, errored>>

\* lines 28-50: the select returns; error, empty short-circuit, or shape the
\* items and start the remote call
FetchReturn ==
    /\ hpc = "awaitFetch"
    /\ \E failed \in BOOLEAN, data \in Lists, newId \in CorrIds :
        IF failed
        THEN /\ fetched' = "error"
             /\ hpc' = "done"
             /\ response' = ErrorResponse(400, "select failed")
             /\ UNCHANGED <<list, items, cvars>>
        ELSE /\ fetched' = "ok"
             /\ list' = data
             /\ IF IsEmptyList(data)
                THEN /\ hpc' = "done"
                     /\ response' = OkResponse(0, Num(10), <<>>)
                     /\ UNCHANGED <<items, cvars>>
                ELSE /\ items' = ShapeItems(data, MAX_ITEMS)
                     /\ callMCP(newId)
                     /\ hpc' = "awaitMCP"
                     /\ response' = response
    /\ lastEvt' = "fetch"
    /\ lastLate' = FALSE
    /\ UNCHANGED <<MAX_ITEMS, inserted, nInsert, accepted, matchSeen>>

HandlerResume_InsertAlways ==
    /\ hpc = "awaitMCP"
    /\ IsSettled(outcome)
    /\ inserted' = BuildRows(list, outcome.assignments)
    /\ nInsert' = nInsert + 1
    /\ IF outcome.st = "fulfilled"
       THEN /\ hpc' = "awaitInsert"
            /\ response' = response
       ELSE /\ hpc' = "done"
            /\ response' = ErrorResponse(500, CatchMessage(outcome.error))
    /\ lastEvt' = "resume"
    /\ lastLate' = FALSE
    /\ UNCHANGED <<MAX_ITEMS, fetched, list, items, cvars, accepted, matchSeen>>

\* lines 50-60 and 71-73: the awaited promise has settled; build the rows and
\* call insert, or catch the rejection
HandlerResume ==
    /\ hpc = "awaitMCP"
    /\ IsSettled(outcome)
    /\ IF outcome.st = "fulfilled"
       THEN /\ inserted' = BuildRows(list, outcome.assignments)
            /\ nInsert' = nInsert + 1
            /\ hpc' = "awaitInsert"
            /\ response' = response
       ELSE /\ hpc' = "done"
            /\ response' = ErrorResponse(500, CatchMessage(outcome.error))
            /\ UNCHANGED <<inserted, nInsert>>
    /\ lastEvt' = "resume"
    /\ lastLate' = FALSE
    /\ UNCHANGED <<MAX_ITEMS, fetched, list, items, cvars, accepted, matchSeen>>

\* lines 60-70: the insert returns
InsertReturn ==
    /\ hpc = "awaitInsert"
    /\ \E failed \in BOOLEAN :
        response' = IF failed
                    THEN ErrorResponse(400, "insert failed")
                    ELSE OkResponse(Len(inserted), FinalCoverage(outcome.coverage),
                                    FinalCategories(outcome.categories))
    /\ hpc' = "done"
    /\ lastEvt' = "insert"
    /\ lastLate' = FALSE
    /\ UNCHANGED <<MAX_ITEMS, fetched, list, items, inserted, nInsert, cvars, accepted, matchSeen>>

\* ---------------------------------------------------- callMCP's callbacks
OnOpen_SendTwice ==
    /\ wsState = "CONNECTING"
    /\ wsState' = "OPEN"
    /\ sent' = sent \o << [id |-> id, tool |-> "categorize_whatsapp", items |-> items],
                          [id |-> id, tool |-> "categorize_whatsapp", items |-> items] >>
    /\ lastEvt' = "open"
    /\ lastLate' = IsSettled(outcome)
    /\ UNCHANGED <<hvars, id, nConn, settled, timer, outcome, nClose, nMsgs, errored, accepted, matchSeen>>

\* lines 98-100
OnOpen ==
    /\ wsState = "CONNECTING"
    /\ wsState' = "OPEN"
    /\ sent' = Append(sent, [id |-> id, tool |-> "categorize_whatsapp", items |-> items])
    /\ lastEvt' = "open"
    /\ lastLate' = IsSettled(outcome)
    /\ UNCHANGED <<hvars, id, nConn, settled, timer, outcome, nClose, nMsgs, errored, accepted, matchSeen>>

OnTimer_NoClose ==
    /\ timer = "pending"
    /\ timer' = "fired"
    /\ IF settled
       THEN UNCHANGED <<settled, outcome>>
       ELSE /\ settled' = TRUE
            /\ outcome' = reject(outcome, "mcp_timeout")
    /\ lastEvt' = "timer"
    /\ lastLate' = IsSettled(outcome)
    /\ UNCHANGED <<hvars, id, nConn, sent, nMsgs, errored, accepted, matchSeen, wsState, nClose>>

\* lines 91-96
OnTimer ==
    /\ timer = "pending"
    /\ timer' = "fired"
    /\ IF settled
       THEN UNCHANGED <<settled, wsState, nClose, outcome>>
       ELSE /\ settled' = TRUE
            /\ wsState' = wsClose(wsState)
            /\ nClose' = nClose + 1
            /\ outcome' = reject(outcome, "mcp_timeout")
    /\ lastEvt' = "timer"
    /\ lastLate' = IsSettled(outcome)
    /\ UNCHANGED <<hvars, id, nConn, sent, nMsgs, errored, accepted, matchSeen>>

FrameKind(f) ==
    IF ~f.parses THEN "malformed" ELSE IF f.id # id THEN "nomatch" ELSE "match"

HandleMessage_NoIdCheck(f) ==
    IF ~f.parses
    THEN UNCHANGED <<timer, settled, outcome, wsState, nClose>>
    ELSE /\ timer' = clearTimeout(timer)
         /\ settled' = TRUE
         /\ outcome' = IF f.ok THEN resolve(outcome, Normalize(f))
                       ELSE reject(outcome, ToolError(f))
         /\ wsState' = wsClose(wsState)
         /\ nClose' = nClose + 1

HandleMessage_MalformedRejects(f) ==
    IF ~f.parses
    THEN /\ timer' = clearTimeout(timer)
         /\ settled' = TRUE
         /\ outcome' = reject(outcome, "bad_frame")
         /\ UNCHANGED <<wsState, nClose>>
    ELSE IF f.id # id
    THEN UNCHANGED <<timer, settled, outcome, wsState, nClose>>
    ELSE /\ timer' = clearTimeout(timer)
         /\ settled' = TRUE
         /\ outcome' = IF f.ok THEN resolve(outcome, Normalize(f))
                       ELSE reject(outcome, ToolError(f))
         /\ wsState' = wsClose(wsState)
         /\ nClose' = nClose + 1

\* lines 102-121, the effect on the call of one inbound frame
HandleMessage(f) ==
    IF ~f.parses
    THEN UNCHANGED <<timer, settled, outcome, wsState, nClose>>
    ELSE IF f.id # id
    THEN UNCHANGED <<timer, settled, outcome, wsState, nClose>>
    ELSE /\ timer' = clearTimeout(timer)
         /\ settled' = TRUE
         /\ outcome' = IF f.ok THEN resolve(outcome, Normalize(f))
                       ELSE reject(outcome, ToolError(f))
         /\ wsState' = wsClose(wsState)
         /\ nClose' = nClose + 1

OnMessage ==
    /\ wsState \in {"OPEN", "CLOSING"}
    /\ sent # <<>>
    /\ nMsgs < MaxMsgs
    /\ \E f \in Frames :
        /\ HandleMessage(f)
        /\ lastEvt' = FrameKind(f)
        /\ accepted' = IF FrameKind(f) = "match" /\ ~IsSettled(outcome) THEN f ELSE accepted
        /\ matchSeen' = (matchSeen \/ FrameKind(f) = "match")
    /\ nMsgs' = nMsgs + 1
    /\ lastLate' = IsSettled(outcome)
    /\ UNCHANGED <<hvars, id, nConn, sent, errored>>

OnError_NoReject ==
    /\ wsState \in {"CONNECTING", "OPEN", "CLOSING"}
    /\ ~errored
    /\ errored' = TRUE
    /\ wsState' = "CLOSING"
    /\ IF settled
       THEN UNCHANGED <<timer, settled, outcome>>
       ELSE /\ timer' = clearTimeout(timer)
            /\ settled' = TRUE
            /\ outcome' = outcome
    /\ lastEvt' = "error"
    /\ lastLate' = IsSettled(outcome)
    /\ UNCHANGED <<hvars, id, nConn, sent, nClose, nMsgs, accepted, matchSeen>>

\* lines 123-128; the socket that emits the error is being torn down
OnError ==
    /\ wsState \in {"CONNECTING", "OPEN", "CLOSING"}
    /\ ~errored
    /\ errored' = TRUE
    /\ wsState' = "CLOSING"
    /\ \E err \in TransportErrors :
        IF settled
        THEN UNCHANGED <<timer, settled, outcome>>
        ELSE /\ timer' = clearTimeout(timer)
             /\ settled' = TRUE
             /\ outcome' = reject(outcome, err)
    /\ lastEvt' = "error"
    /\ lastLate' = IsSettled(outcome)
    /\ UNCHANGED <<hvars, id, nConn, sent, nClose, nMsgs, accepted, matchSeen>>

OnClose_NoReject ==
    /\ wsState \in {"CONNECTING", "OPEN", "CLOSING"}
    /\ wsState' = "CLOSED"
    /\ IF ~settled
       THEN /\ timer' = clearTimeout(timer)
            /\ settled' = TRUE
            /\ outcome' = outcome
       ELSE UNCHANGED <<timer, settled, outcome>>
    /\ lastEvt' = "close"
    /\ lastLate' = IsSettled(outcome)
    /\ UNCHANGED <<hvars, id, nConn, sent, nClose, nMsgs, errored, accepted, matchSeen>>

\* lines 130-137
OnClose ==
    /\ wsState \in {"CONNECTING", "OPEN", "CLOSING"}
    /\ wsState' = "CLOSED"
    /\ IF ~settled
       THEN /\ timer' = clearTimeout(timer)
            /\ settled' = TRUE
            /\ outcome' = reject(outcome, "mcp_closed")
       ELSE UNCHANGED <<timer, settled, outcome>>
    /\ lastEvt' = "close"
    /\ lastLate' = IsSettled(outcome)
    /\ UNCHANGED <<hvars, id, nConn, sent, nClose, nMsgs, errored, accepted, matchSeen>>

Next ==
    \/ HandlerEntry
    \/ FetchReturn
    \/ HandlerResume
    \/ InsertReturn
    \/ OnOpen
    \/ OnTimer
    \/ OnMessage
    \/ OnError
    \/ OnClose

Spec == Init /\ [][Next]_vars

\* the runtime runs a pending timer's callback when its delay has passed
LiveSpec == Init /\ [][Next]_vars /\ WF_vars(OnTimer)

TypeOK ==
    /\ hpc \in {"start", "awaitFetch", "awaitMCP", "awaitInsert", "done"}
    /\ MAX_ITEMS \in 1..MaxCap
    /\ fetched \in {"none", "error", "ok"}
    /\ list \in Lists
    /\ wsState \in {"none", "CONNECTING", "OPEN", "CLOSING", "CLOSED"}
    /\ settled \in BOOLEAN
    /\ timer \in {"none", "pending", "fired", "cleared"}
    /\ outcome.st \in {"none", "pending", "fulfilled", "rejected"}
    /\ nMsgs \in 0..MaxMsgs
    /\ nConn \in 0..1

\* ==================================================================== claims
Range(s) == {s[k] : k \in DOMAIN s}

\* what the claims call the category of position k (from 1) of a received frame
Expected(f, k) ==
    IF f.assignments.t = "array" /\ k <= Len(f.assignments.v) /\ f.assignments.v[k] # ""
    THEN f.assignments.v[k] ELSE "Other"

\* C1: once the promise of callMCP is fulfilled or rejected, no later step
\* (late frame, late error, late close, late timer) changes its state, value
\* or error.
C1_SettlementIdempotent == [][IsSettled(outcome) => outcome' = outcome]_vars

\* a matching frame was delivered after the call had failed with the timeout
C1_Witness ==
    /\ lastEvt = "match"
    /\ lastLate
    /\ outcome.st = "rejected"
    /\ outcome.error = "mcp_timeout"

\* C2: a frame whose id differs from the call's id, delivered while the call
\* is waiting, leaves the promise, the settled flag, the timer, the
\* connection and the number of close calls as they were; and the promise is
\* fulfilled only by a frame whose id equals the call's id.
C2_NonMatchingIgnored ==
    [][ /\ (nMsgs' = nMsgs + 1 /\ lastEvt' = "nomatch" /\ outcome.st = "pending")
            => /\ outcome' = outcome
               /\ settled' = FALSE /\ settled = FALSE
               /\ timer' = timer
               /\ wsState' = wsState
               /\ nClose' = nClose
        /\ (outcome.st = "pending" /\ outcome'.st = "fulfilled")
            => (lastEvt' = "match" /\ accepted'.id = id) ]_vars

\* a non-matching frame was delivered and the call is still waiting
C2_Witness ==
    /\ lastEvt = "nomatch"
    /\ ~lastLate
    /\ outcome.st = "pending"
    /\ timer = "pending"
    /\ wsState = "OPEN"

\* C3 as stated: a call that settles without any frame having carried its id
\* is rejected with mcp_timeout or mcp_closed.
C3_Original ==
    (~matchSeen /\ IsSettled(outcome))
        => (outcome.st = "rejected" /\ outcome.error \in {"mcp_timeout", "mcp_closed"})

\* C3 (amended): as long as no frame has carried the call's id the promise is
\* not fulfilled, and a rejection is mcp_timeout, mcp_closed or the transport
\* error of an error event; and a pending call is eventually rejected unless
\* a frame carries its id.
C3_NoMatchFails ==
    /\ [](~matchSeen =>
            /\ outcome.st # "fulfilled"
            /\ outcome.st = "rejected"
                 => outcome.error \in ({"mcp_timeout", "mcp_closed"} \cup TransportErrors))
    /\ (outcome.st = "pending") ~> (matchSeen \/ outcome.st = "rejected")

\* non-matching frames only, and the call failed with the transport error
C3_Witness ==
    /\ ~matchSeen
    /\ nMsgs > 0
    /\ outcome.st = "rejected"
    /\ outcome.error \in TransportErrors

\* C4: the step in which the deadline timer fires on an unsettled call
\* rejects the promise with mcp_timeout and calls ws.close() once.
C4_TimeoutClosesAndFails ==
    [][(timer = "pending" /\ timer' = "fired" /\ outcome.st = "pending")
        => /\ outcome'.st = "rejected"
           /\ outcome'.error = "mcp_timeout"
           /\ settled'
           /\ nClose' = nClose + 1
           /\ wsState' \in {"CLOSING", "CLOSED"} ]_vars

\* the timer fired on an open connection with the request sent
C4_Witness ==
    /\ lastEvt = "timer"
    /\ ~lastLate
    /\ outcome.error = "mcp_timeout"
    /\ Len(sent) = 1
    /\ nClose = 1

\* C5: whenever the call is settled, a close of the connection was attempted
\* by the call or the connection is closed.
C5_Original == IsSettled(outcome) => (nClose > 0 \/ wsState = "CLOSED")

\* C6: a pending call is eventually fulfilled or rejected, and a settled call
\* never goes from one kind of outcome to the other.
C6_SettlesExactlyOnce ==
    /\ (outcome.st = "pending") ~> IsSettled(outcome)
    /\ [][IsSettled(outcome) => outcome'.st = outcome.st]_vars

\* the call failed because the connection closed, and the handler answered
C6_Witness ==
    /\ outcome.st = "rejected"
    /\ outcome.error = "mcp_closed"
    /\ hpc = "done"

\* C7: the envelope holds min(N, MAX_ITEMS) items, numbered from 0 without
\* gaps, item k made from record k of the list.
C7_EnvelopeCapped ==
    \A its \in {e.items : e \in Range(sent)} \cup (IF nConn > 0 THEN {items} ELSE {}) :
        /\ Len(its) = Min(Len(list), MAX_ITEMS)
        /\ Len(its) <= MAX_ITEMS
        /\ \A k \in 1..Len(its) :
            /\ its[k].i = k - 1
            /\ its[k].text = list[k].raw_text
            /\ its[k].url = list[k].url
            /\ its[k].keywords = list[k].matched_keywords

\* more records than the cap, and the envelope was sent
C7_Witness ==
    /\ Len(sent) = 1
    /\ Len(list) > MAX_ITEMS
    /\ Len(sent[1].items) = MAX_ITEMS

\* C8: with zero candidate records the handler answers ok with processed 0,
\* coverage 1 and no categories, never opens a connection, sends nothing and
\* inserts nothing.
C8_EmptyShortCircuit ==
    (fetched = "ok" /\ list = <<>>)
        => /\ hpc = "done"
           /\ response = [status |-> 200, ok |-> TRUE, processed |-> 0, coverage |-> Num(10),
                          categories |-> <<>>, error |-> ""]
           /\ nConn = 0
           /\ wsState = "none"
           /\ sent = <<>>
           /\ nInsert = 0
           /\ inserted = <<>>

C8_Witness ==
    /\ fetched = "ok"
    /\ list = <<>>
    /\ response.ok

\* C9: after a successful exchange every position sent in the request has
\* exactly one row, for the record at that position, with the category the
\* response assigned to it, or Other when that entry is missing or empty.
C9_SentPositionsGetRows ==
    (nInsert = 1) =>
        \A k \in 1..Min(Len(list), MAX_ITEMS) :
            /\ Cardinality({j \in DOMAIN inserted : inserted[j].filtered_id = list[k].id}) = 1
            /\ k \in DOMAIN inserted
            /\ inserted[k].filtered_id = list[k].id
            /\ inserted[k].category = Expected(accepted, k)

\* two items, assignments ["A"]: the rows are A and Other
C9_Witness ==
    /\ nInsert = 1
    /\ Len(items) = 2
    /\ accepted.assignments = Arr(<<"A">>)
    /\ inserted[1].category = "A"
    /\ inserted[2].category = "Other"

C11_Original ==
    [][(outcome.st = "pending" /\ IsSettled(outcome')) =>
        /\ lastEvt' \in {"match", "error", "close", "timer"}
        /\ lastEvt' = "match" =>
             IF accepted'.ok
             THEN outcome'.st = "fulfilled"
             ELSE /\ outcome'.st = "rejected"
                  /\ outcome'.error = (IF accepted'.error # "" THEN accepted'.error
                                       ELSE "mcp_tool_error")
        /\ lastEvt' = "error" => (outcome'.st = "rejected" /\ outcome'.error \in TransportErrors)
        /\ lastEvt' = "close" => (outcome'.st = "rejected" /\ outcome'.error = "mcp_closed")
        /\ lastEvt' = "timer" => (outcome'.st = "rejected" /\ outcome'.error = "mcp_timeout")
        /\ outcome'.st = "rejected" =>
             /\ outcome'.error = "mcp_timeout" => lastEvt' = "timer"
             /\ outcome'.error = "mcp_closed" => lastEvt' = "close"
             /\ outcome'.error \in TransportErrors => lastEvt' = "error"
             /\ outcome'.error = "mcp_tool_error" => lastEvt' = "match" ]_vars

\* C12: a fulfilled call was settled by a frame with the call's id and ok
\* true, and its value holds the frame's assignments and categories when they
\* are arrays and empty arrays otherwise, and the frame's coverage when it is
\* a number and 1 otherwise.
C12_ResolvedNormalized ==
    (outcome.st = "fulfilled") =>
        /\ accepted.parses /\ accepted.ok /\ accepted.id = id
        /\ outcome.assignments.t = "array"
        /\ outcome.assignments.v = (IF accepted.assignments.t = "array"
                                    THEN accepted.assignments.v ELSE <<>>)
        /\ outcome.categories.t = "array"
        /\ outcome.categories.v = (IF accepted.categories.t = "array"
                                   THEN accepted.categories.v ELSE <<>>)
        /\ outcome.coverage.t = "number"
        /\ outcome.coverage.v = (IF accepted.coverage.t = "number" THEN accepted.coverage.v ELSE 10)

\* a frame with no array and no number in it fulfilled the call
C12_Witness ==
    /\ outcome.st = "fulfilled"
    /\ accepted.assignments.t = "string"
    /\ accepted.categories.t = "undefined"
    /\ accepted.coverage.t = "string"
    /\ outcome.coverage = Num(10)

\* C13 as stated: once the settled flag is set, no step changes the promise,
\* the flag or the timer, and no step calls ws.close() again.
C13_Original ==
    [][settled => /\ outcome' = outcome
                  /\ settled' = settled
                  /\ timer' = timer
                  /\ nClose' = nClose ]_vars

\* C14 as stated: the timer is not running, and has not fired, before the
\* request envelope was sent.
C14_Original == (timer \in {"pending", "fired"}) => sent # <<>>

\* C14 (amended): the timer is started when the call is made, with the
\* connection attempt and before the request is sent; it is pending as long
\* as the call is unsettled, and no timer exists before the call has created
\* its connection.
C14_TimerFromConstruction ==
    /\ outcome.st = "pending" => timer = "pending"
    /\ timer # "none" => nConn = 1
    /\ nConn = 0 => (timer = "none" /\ outcome.st = "none")

\* the call timed out while connecting, before anything was sent
C14_Witness ==
    /\ lastEvt = "timer"
    /\ ~lastLate
    /\ sent = <<>>
    /\ outcome.st = "rejected"
    /\ outcome.error = "mcp_timeout"

\* C15: the delivery of a frame that does not parse changes neither the
\* promise, the settled flag, the timer, the connection nor the number of
\* close calls, however many frames came before it.
C15_MalformedDiscarded ==
    [][(nMsgs' = nMsgs + 1 /\ lastEvt' = "malformed")
        => /\ outcome' = outcome
           /\ settled' = settled
           /\ timer' = timer
           /\ wsState' = wsState
           /\ nClose' = nClose ]_vars

\* frames were delivered, the last one malformed, and the call still waits
C15_Witness ==
    /\ nMsgs = 2
    /\ lastEvt = "malformed"
    /\ ~matchSeen
    /\ outcome.st = "pending"
    /\ timer = "pending"
    /\ wsState = "OPEN"
    /\ nClose = 0

\* C16: a call opens one connection and sends at most one envelope, with the
\* call's id and items, and only once the connection has opened; no outcome
\* leads to a second connection or envelope.
C16_OneConnectionOneSend ==
    /\ nConn <= 1
    /\ outcome.st # "none" => nConn = 1
    /\ Len(sent) <= 1
    /\ sent # <<>> => /\ wsState \in {"OPEN", "CLOSING", "CLOSED"}
                      /\ sent[1] = [id |-> id, tool |-> "categorize_whatsapp", items |-> items]
    /\ wsState = "CONNECTING" => sent = <<>>

\* the call failed after its request was sent, and the handler has answered
C16_Witness ==
    /\ outcome.st = "rejected"
    /\ hpc = "done"
    /\ wsState = "CLOSED"
    /\ nConn = 1
    /\ Len(sent) = 1

\* C17: insert is called only when the call is fulfilled; when the call is
\* rejected the handler answers 500 with the failure's message and never
\* calls insert.
C17_InsertOnlyAfterSuccess ==
    /\ nInsert > 0 => outcome.st = "fulfilled"
    /\ inserted # <<>> => outcome.st = "fulfilled"
    /\ hpc = "awaitInsert" => outcome.st = "fulfilled"
    /\ (outcome.st = "rejected" /\ hpc = "done") =>
        /\ response.status = 500
        /\ ~response.ok
        /\ response.error = outcome.error
        /\ nInsert = 0

\* the remote tool reported an error, and the handler answered with it
C17_Witness ==
    /\ outcome.st = "rejected"
    /\ hpc = "done"
    /\ response.error = "tool_failed"
    /\ nInsert = 0

\* C18: a settled call has no pending timer, and the timer callback has run
\* only on a call it settled itself with mcp_timeout.
C18_NoTimerAfterSettlement ==
    /\ IsSettled(outcome) => timer \in {"cleared", "fired"}
    /\ timer = "fired" => /\ outcome.st = "rejected"
                          /\ outcome.error = "mcp_timeout"
                          /\ accepted = NoFrame
    /\ (IsSettled(outcome) /\ (accepted # NoFrame \/ outcome.error \in TransportErrors
                                 \/ outcome.error = "mcp_closed")) => timer = "cleared"

\* the call failed on an error event and its timer was cancelled
C18_Witness ==
    /\ outcome.st = "rejected"
    /\ outcome.error \in TransportErrors
    /\ timer = "cleared"
    /\ wsState = "CLOSED"

\* C19: a successful answer after a remote exchange carries a number as
\* coverage, the frame's when that is a number and 1 otherwise, and a
\* sequence as categories.
C19_CoverageNeverNull ==
    (response.ok /\ nConn = 1) =>
        /\ response.coverage.t = "number"
        /\ response.coverage.v = (IF accepted.coverage.t = "number" THEN accepted.coverage.v ELSE 10)
        /\ response.categories = (IF accepted.categories.t = "array"
                                  THEN accepted.categories.v ELSE <<>>)

\* the frame's coverage was not a number, and the answer says 1
C19_Witness ==
    /\ response.ok
    /\ nConn = 1
    /\ accepted.coverage.t = "string"
    /\ response.coverage = Num(10)
====
